---- MODULE Spec2Model ----
(***************************************************************************)
(* Model of plugit/settingshandler.py: a settings session holding a        *)
(* lib2to3 node tree, the update operation (create / extend entries), the  *)
(* container mutator and the conditional save; and of plugit/version.py:   *)
(* Version objects and their comparison operators.                         *)
(*                                                                         *)
(* A tree element is a record [kind, type, value, prefix, children]:       *)
(* kind "Leaf" for pytree.Leaf (children empty), kind "Node" for           *)
(* pytree.Node (value and prefix empty).  Texts are strings, so str(root)  *)
(* is the text the program would write.                                    *)
(***************************************************************************)
EXTENDS Integers, Sequences, FiniteSets, TLC

VARIABLES
    root,      \* self.root: the node tree of the session
    changed,   \* self.changed
    filename,  \* self.filename
    files,     \* the file system: path -> text (NoFile when there is none)
    source,    \* history: the text the session was opened on
    calls,     \* history: number of update / save calls made
    applied,   \* history: number of update entries completed so far
    last,      \* history: the last call, its arguments and its outcome
    prev,      \* history: root, changed and files before the last call
    left,      \* version.py: the Version on the left of a comparison
    right,     \* version.py: the Version on its right
    compared   \* version.py: what the comparison operators returned

vars == <<root, changed, filename, files, source, calls, applied, last, prev,
          left, right, compared>>

-----------------------------------------------------------------------------
(* Bounds of the exploration.                                              *)

\* API calls (update or save) made in one session.
MaxCalls == 2

\* Entries (create plus extend) handed to one update call.
MaxEntries == 2

-----------------------------------------------------------------------------
(* pytree.Leaf / pytree.Node and their str().                              *)

Leaf(type, value, prefix) ==
    [kind |-> "Leaf", type |-> type, value |-> value, prefix |-> prefix,
     children |-> <<>>]

Node(type, children) ==
    [kind |-> "Node", type |-> type, value |-> "", prefix |-> "",
     children |-> children]

RECURSIVE Str(_)
\* str(node): a leaf renders prefix + value, a node the concatenation of
\* its children in order.
Str(n) ==
    IF n.kind = "Leaf" THEN n.prefix \o n.value
    ELSE IF n.children = <<>> THEN ""
    ELSE LET RECURSIVE Cat(_)
             Cat(i) == IF i > Len(n.children) THEN ""
                       ELSE Str(n.children[i]) \o Cat(i + 1)
         IN Cat(1)

RECURSIVE Prefix(_)
\* node.prefix: a leaf's own prefix; a node's is that of its first child,
\* the empty string when it has no children.
Prefix(n) ==
    IF n.kind = "Leaf" THEN n.prefix
    ELSE IF n.children = <<>> THEN ""
    ELSE Prefix(n.children[1])

-----------------------------------------------------------------------------
(* Python values handed to update, and repr().                             *)

PyStr(s)  == [t |-> "str",  s |-> s,  n |-> 0, keys |-> <<>>, items |-> <<>>]
PyInt(n)  == [t |-> "int",  s |-> "", n |-> n, keys |-> <<>>, items |-> <<>>]
PyBool(b) == [t |-> "bool", s |-> "", n |-> IF b THEN 1 ELSE 0,
              keys |-> <<>>, items |-> <<>>]
PyTuple(items) ==
    [t |-> "tuple", s |-> "", n |-> 0, keys |-> <<>>, items |-> items]
\* keys[i] : items[i] in the order iteritems() yields the pairs.
PyDict(keys, items) ==
    [t |-> "dict", s |-> "", n |-> 0, keys |-> keys, items |-> items]

RECURSIVE repr(_)
repr(v) ==
    CASE v.t = "str"  -> "'" \o v.s \o "'"
      [] v.t = "int"  -> ToString(v.n)
      [] v.t = "bool" -> IF v.n = 1 THEN "True" ELSE "False"
      [] v.t = "tuple" ->
            LET RECURSIVE Join(_)
                Join(i) == IF i > Len(v.items) THEN ""
                           ELSE repr(v.items[i])
                                \o (IF i < Len(v.items) THEN ", " ELSE "")
                                \o Join(i + 1)
            IN "(" \o Join(1) \o (IF Len(v.items) = 1 THEN "," ELSE "") \o ")"
      [] v.t = "dict" ->
            LET RECURSIVE JoinP(_)
                JoinP(i) == IF i > Len(v.keys) THEN ""
                            ELSE repr(v.keys[i]) \o ": " \o repr(v.items[i])
                                 \o (IF i < Len(v.keys) THEN ", " ELSE "")
                                 \o JoinP(i + 1)
            IN "{" \o JoinP(1) \o "}"

-----------------------------------------------------------------------------
(* Node factories.                                                         *)

Newline == Leaf("NEWLINE", "\n", "")

Comma == Leaf("COMMA", ",", "")

Value(value, prefix) == Leaf("STRING", repr(value), prefix)

\* AssignStatement without its Newline() leaf.
AssignStatement_no_newline(name, value) ==
    Node("expr_stmt",
         <<Leaf("NAME", name, ""),
           Leaf("EQUAL", "=", " "),
           Value(value, " ")>>)

AssignStatement(name, value) ==
    Node("expr_stmt",
         <<Leaf("NAME", name, ""),
           Leaf("EQUAL", "=", " "),
           Value(value, " "),
           Newline>>)

-----------------------------------------------------------------------------
(* The container mutator.  Every operator returns the node as the code     *)
(* leaves it, with err naming the exception raised ("none" when it         *)
(* returns normally): a mutation made before a raise stays in the tree.    *)

NoErr == "none"

\* node.append_child(child)
append_child(node, child) ==
    [node EXCEPT !.children = Append(@, child)]

\* node.insert_child(1, child): child becomes children[1] (0-based).
insert_child(node, child) ==
    [node EXCEPT !.children = <<@[1]>> \o <<child>> \o SubSeq(@, 2, Len(@))]

RECURSIVE FindWsFrom(_, _, _)
\* The loop of _find_whitespace over the siblings ch[j], ch[j-1], ...
FindWsFrom(ch, j, ret) ==
    IF j >= 1 /\ ch[j].type # "COMMA"
    THEN FindWsFrom(ch, j - 1, Prefix(ch[j]))
    ELSE ret

\* _find_whitespace(l) for l the last child of a node with children ch.
_find_whitespace(ch) == FindWsFrom(ch, Len(ch) - 1, "")

_append_to_list(node, value, prefix) ==
    append_child(append_child(node, Value(value, prefix)), Comma)

RECURSIVE AppendPairs(_, _, _, _)
\* The loop of _append_to_dict over value.iteritems(), from pair i on.
AppendPairs(node, value, prefix, i) ==
    IF i > Len(value.keys) THEN node
    ELSE AppendPairs(
            append_child(
              append_child(
                append_child(
                  append_child(node, Value(value.keys[i], prefix)),
                  Leaf("COLON", ":", "")),
                Value(value.items[i], " ")),
              Comma),
            value, prefix, i + 1)

_append_to_dict(node, value, prefix, setting) ==
    IF value.t # "dict"
    THEN [node |-> node, err |-> "ValueError"]
    ELSE [node |-> AppendPairs(node, value, prefix, 1), err |-> NoErr]

_append_to_leaf_expression(atom, value, setting) ==
    LET first_leaf == atom.children[1]
        prefix == "\n    "
        atom1 == insert_child(atom, Node("simple_stmt", <<>>))
    IN  IF first_leaf.type = "LSQB" \/ first_leaf.type = "LPAR"
        THEN [node |-> [atom1 EXCEPT !.children[2] =
                            _append_to_list(@, value, prefix)],
              err |-> NoErr]
        ELSE IF first_leaf.type = "LBRACE"
        THEN LET r == _append_to_dict(atom1.children[2], value, prefix,
                                      setting)
             IN  [node |-> [atom1 EXCEPT !.children[2] = r.node],
                  err |-> r.err]
        ELSE [node |-> atom1, err |-> NoErr]

_append_to_node_expression(container, value, setting) ==
    IF container.type \notin {"testlist_gexp", "listmaker", "dictsetmaker"}
    THEN [node |-> container, err |-> "SettingsError: unknown container type"]
    ELSE
    LET last_leaf == container.children[Len(container.children)]
    IN  IF last_leaf.kind # "Leaf"
        THEN [node |-> container, err |-> "AssertionError"]
        ELSE
        LET prefix == _find_whitespace(container.children)
            c1 == IF last_leaf.type # "COMMA"
                  THEN append_child(container, Comma)
                  ELSE container
        IN  IF container.type \in {"testlist_gexp", "listmaker"}
            THEN [node |-> _append_to_list(c1, value, prefix), err |-> NoErr]
            ELSE _append_to_dict(c1, value, prefix, setting)

append_to_assignment_node(node, value) ==
    IF node.type # "expr_stmt"
    THEN [node |-> node, err |-> "AssertionError"]
    ELSE
    LET atom == node.children[3]
        setting == node.children[1].value
    IN  IF atom.type # "atom"
        THEN [node |-> node, err |-> "SettingsError: not a container"]
        ELSE IF atom.children[2].kind = "Node"
        THEN LET r == _append_to_node_expression(atom.children[2], value,
                                                 setting)
             IN  [node |-> [node EXCEPT !.children[3].children[2] = r.node],
                  err |-> r.err]
        ELSE LET r == _append_to_leaf_expression(atom, value, setting)
             IN  [node |-> [node EXCEPT !.children[3] = r.node],
                  err |-> r.err]

-----------------------------------------------------------------------------
(* plugit/version.py: Version objects and their ordering.                  *)
(*                                                                         *)
(* An attribute or a constructor argument is None or an integer n, written *)
(* <<>> and <<n>>; a Version object is the record of its five attributes.  *)

\* Largest number handed to the Version constructor.
MaxNumber == 1

None == <<>>

Number(n) == <<n>>

PRE_ALPHA == 0

ALPHA == 1

BETA == 2

PRERELEASE == 3

FINAL == 4

SUBRELEASE_DICT ==
    (PRE_ALPHA :> "pre-alpha") @@ (ALPHA :> "alpha") @@ (BETA :> "beta")
        @@ (PRERELEASE :> "prerelease")

NoVersion ==
    [major |-> None, minor |-> None, patch |-> None, subrelease |-> None,
     subrellevel |-> None]

\* int(value) for None or an integer: None raises TypeError, which _to_int
\* turns into a VersionError naming the argument.
_to_int(value, label) ==
    IF value = None
    THEN [err |-> "VersionError: " \o label \o " has to be an integer.",
          value |-> None]
    ELSE [err |-> NoErr, value |-> value]

_to_int_or_none(value, label) ==
    IF value = None
    THEN [err |-> NoErr, value |-> None]
    ELSE _to_int(value, label)

\* Version(major, minor, patch, subrelease, subrellevel): the object built,
\* or the error raised by the first failing check.
__init__(major, minor, patch, subrelease, subrellevel) ==
    LET ma == _to_int(major, "Major number")
        mi == _to_int(minor, "Minor number")
        pa == _to_int_or_none(patch, "Patch number")
        sr == _to_int_or_none(subrelease, "Subrelease number")
        sl == _to_int_or_none(subrellevel, "Subrelease level number")
        obj == [major |-> ma.value, minor |-> mi.value, patch |-> pa.value,
                subrelease |-> sr.value, subrellevel |-> sl.value]
    IN  IF ma.err # NoErr THEN [err |-> ma.err, self |-> NoVersion]
        ELSE IF mi.err # NoErr THEN [err |-> mi.err, self |-> NoVersion]
        ELSE IF pa.err # NoErr THEN [err |-> pa.err, self |-> NoVersion]
        ELSE IF sr.err # NoErr THEN [err |-> sr.err, self |-> NoVersion]
        ELSE IF sr.value # None /\ sr.value[1] \notin DOMAIN SUBRELEASE_DICT
        THEN [err |-> "VersionError: Subrelease has to be one of ...",
              self |-> NoVersion]
        ELSE IF sr.value = Number(PRE_ALPHA) /\ subrellevel # None
        THEN [err |-> "VersionError: Pre-alpha release can have no subrelease level number.",
              self |-> NoVersion]
        ELSE IF sl.err # NoErr THEN [err |-> sl.err, self |-> NoVersion]
        ELSE [err |-> NoErr, self |-> obj]

as_tuple(self) ==
    <<self.major, self.minor, self.patch, self.subrelease, self.subrellevel>>

\* x < y for two attributes: None sorts below every integer.
object_lt(x, y) ==
    IF x = None THEN y # None
    ELSE IF y = None THEN FALSE
    ELSE x[1] < y[1]

\* s < t for two tuples of the same length: the first pair of unequal items
\* decides; equal tuples are not less.
RECURSIVE tuple_lt(_, _)
tuple_lt(s, t) ==
    IF s = <<>> \/ t = <<>> THEN Len(s) < Len(t)
    ELSE IF Head(s) = Head(t) THEN tuple_lt(Tail(s), Tail(t))
    ELSE object_lt(Head(s), Head(t))

\* The ordering without the rule on sub-releases.
__lt___by_tuple_only(self, other) ==
    tuple_lt(as_tuple(self), as_tuple(other))

__lt__(self, other) ==
    IF self.subrelease # None /\ other.subrelease = None THEN TRUE
    ELSE IF other.subrelease # None /\ self.subrelease = None THEN FALSE
    ELSE tuple_lt(as_tuple(self), as_tuple(other))

__gt__(self, other) == __lt__(other, self)

__le__(self, other) == ~__lt__(other, self)

__ge__(self, other) == ~__lt__(self, other)

__eq__(self, other) == as_tuple(self) = as_tuple(other)

__ne__(self, other) == ~__eq__(self, other)

\* What the six comparison operators returned for (left, right).
NotCompared ==
    [done |-> FALSE, lt |-> FALSE, gt |-> FALSE, le |-> FALSE, ge |-> FALSE,
     eq |-> FALSE, ne |-> FALSE]

-----------------------------------------------------------------------------
(* The settings files a session is opened on: each text with the tree the  *)
(* lib2to3 driver builds for it.                                           *)

\* "N = ['a']"
Src_list_one ==
    [text |-> "N = ['a']\n",
     tree |->
      Node("file_input", <<
        Node("simple_stmt", <<
          Node("expr_stmt", <<
            Leaf("NAME", "N", ""),
            Leaf("EQUAL", "=", " "),
            Node("atom", <<
              Leaf("LSQB", "[", " "),
              Leaf("STRING", "'a'", ""),
              Leaf("RSQB", "]", "")>>)>>),
          Leaf("NEWLINE", "\n", "")>>),
        Leaf("ENDMARKER", "", "")>>)]

\* "N = ['a',]"
Src_list_one_comma ==
    [text |-> "N = ['a',]\n",
     tree |->
      Node("file_input", <<
        Node("simple_stmt", <<
          Node("expr_stmt", <<
            Leaf("NAME", "N", ""),
            Leaf("EQUAL", "=", " "),
            Node("atom", <<
              Leaf("LSQB", "[", " "),
              Node("listmaker", <<
                Leaf("STRING", "'a'", ""),
                Leaf("COMMA", ",", "")>>),
              Leaf("RSQB", "]", "")>>)>>),
          Leaf("NEWLINE", "\n", "")>>),
        Leaf("ENDMARKER", "", "")>>)]

\* "N = ['a', 'b']"
Src_list_two ==
    [text |-> "N = ['a', 'b']\n",
     tree |->
      Node("file_input", <<
        Node("simple_stmt", <<
          Node("expr_stmt", <<
            Leaf("NAME", "N", ""),
            Leaf("EQUAL", "=", " "),
            Node("atom", <<
              Leaf("LSQB", "[", " "),
              Node("listmaker", <<
                Leaf("STRING", "'a'", ""),
                Leaf("COMMA", ",", ""),
                Leaf("STRING", "'b'", " ")>>),
              Leaf("RSQB", "]", "")>>)>>),
          Leaf("NEWLINE", "\n", "")>>),
        Leaf("ENDMARKER", "", "")>>)]

\* '# a tuple' / '' / 'N = (' / "        'a'," / "        'b'," / '        )'
Src_tuple_lines ==
    [text |-> "# a tuple\n\nN = (\n        'a',\n        'b',\n        )\n",
     tree |->
      Node("file_input", <<
        Node("simple_stmt", <<
          Node("expr_stmt", <<
            Leaf("NAME", "N", "# a tuple\n\n"),
            Leaf("EQUAL", "=", " "),
            Node("atom", <<
              Leaf("LPAR", "(", " "),
              Node("testlist_gexp", <<
                Leaf("STRING", "'a'", "\n        "),
                Leaf("COMMA", ",", ""),
                Leaf("STRING", "'b'", "\n        "),
                Leaf("COMMA", ",", "")>>),
              Leaf("RPAR", ")", "\n        ")>>)>>),
          Leaf("NEWLINE", "\n", "")>>),
        Leaf("ENDMARKER", "", "")>>)]

\* "N = ['a', ('x', 'y')]"
Src_list_last_nested ==
    [text |-> "N = ['a', ('x', 'y')]\n",
     tree |->
      Node("file_input", <<
        Node("simple_stmt", <<
          Node("expr_stmt", <<
            Leaf("NAME", "N", ""),
            Leaf("EQUAL", "=", " "),
            Node("atom", <<
              Leaf("LSQB", "[", " "),
              Node("listmaker", <<
                Leaf("STRING", "'a'", ""),
                Leaf("COMMA", ",", ""),
                Node("atom", <<
                  Leaf("LPAR", "(", " "),
                  Node("testlist_gexp", <<
                    Leaf("STRING", "'x'", ""),
                    Leaf("COMMA", ",", ""),
                    Leaf("STRING", "'y'", " ")>>),
                  Leaf("RPAR", ")", "")>>)>>),
              Leaf("RSQB", "]", "")>>)>>),
          Leaf("NEWLINE", "\n", "")>>),
        Leaf("ENDMARKER", "", "")>>)]

\* "N = [('x', 'y')]"
Src_list_one_nested ==
    [text |-> "N = [('x', 'y')]\n",
     tree |->
      Node("file_input", <<
        Node("simple_stmt", <<
          Node("expr_stmt", <<
            Leaf("NAME", "N", ""),
            Leaf("EQUAL", "=", " "),
            Node("atom", <<
              Leaf("LSQB", "[", " "),
              Node("atom", <<
                Leaf("LPAR", "(", ""),
                Node("testlist_gexp", <<
                  Leaf("STRING", "'x'", ""),
                  Leaf("COMMA", ",", ""),
                  Leaf("STRING", "'y'", " ")>>),
                Leaf("RPAR", ")", "")>>),
              Leaf("RSQB", "]", "")>>)>>),
          Leaf("NEWLINE", "\n", "")>>),
        Leaf("ENDMARKER", "", "")>>)]

\* "N = {'k1': 1}"
Src_dict_one ==
    [text |-> "N = {'k1': 1}\n",
     tree |->
      Node("file_input", <<
        Node("simple_stmt", <<
          Node("expr_stmt", <<
            Leaf("NAME", "N", ""),
            Leaf("EQUAL", "=", " "),
            Node("atom", <<
              Leaf("LBRACE", "{", " "),
              Node("dictsetmaker", <<
                Leaf("STRING", "'k1'", ""),
                Leaf("COLON", ":", ""),
                Leaf("NUMBER", "1", " ")>>),
              Leaf("RBRACE", "}", "")>>)>>),
          Leaf("NEWLINE", "\n", "")>>),
        Leaf("ENDMARKER", "", "")>>)]

\* "N = {'k1': 1, 'k2': 2}"
Src_dict_two ==
    [text |-> "N = {'k1': 1, 'k2': 2}\n",
     tree |->
      Node("file_input", <<
        Node("simple_stmt", <<
          Node("expr_stmt", <<
            Leaf("NAME", "N", ""),
            Leaf("EQUAL", "=", " "),
            Node("atom", <<
              Leaf("LBRACE", "{", " "),
              Node("dictsetmaker", <<
                Leaf("STRING", "'k1'", ""),
                Leaf("COLON", ":", ""),
                Leaf("NUMBER", "1", " "),
                Leaf("COMMA", ",", ""),
                Leaf("STRING", "'k2'", " "),
                Leaf("COLON", ":", ""),
                Leaf("NUMBER", "2", " ")>>),
              Leaf("RBRACE", "}", "")>>)>>),
          Leaf("NEWLINE", "\n", "")>>),
        Leaf("ENDMARKER", "", "")>>)]

\* 'N = {' / "    'k1': {'b': 1}," / "    'k2': 2," / '}'
Src_dict_lines ==
    [text |-> "N = {\n    'k1': {'b': 1},\n    'k2': 2,\n}\n",
     tree |->
      Node("file_input", <<
        Node("simple_stmt", <<
          Node("expr_stmt", <<
            Leaf("NAME", "N", ""),
            Leaf("EQUAL", "=", " "),
            Node("atom", <<
              Leaf("LBRACE", "{", " "),
              Node("dictsetmaker", <<
                Leaf("STRING", "'k1'", "\n    "),
                Leaf("COLON", ":", ""),
                Node("atom", <<
                  Leaf("LBRACE", "{", " "),
                  Node("dictsetmaker", <<
                    Leaf("STRING", "'b'", ""),
                    Leaf("COLON", ":", ""),
                    Leaf("NUMBER", "1", " ")>>),
                  Leaf("RBRACE", "}", "")>>),
                Leaf("COMMA", ",", ""),
                Leaf("STRING", "'k2'", "\n    "),
                Leaf("COLON", ":", ""),
                Leaf("NUMBER", "2", " "),
                Leaf("COMMA", ",", "")>>),
              Leaf("RBRACE", "}", "\n")>>)>>),
          Leaf("NEWLINE", "\n", "")>>),
        Leaf("ENDMARKER", "", "")>>)]

\* "N = {'k1': {'b': 1}}"
Src_dict_last_nested ==
    [text |-> "N = {'k1': {'b': 1}}\n",
     tree |->
      Node("file_input", <<
        Node("simple_stmt", <<
          Node("expr_stmt", <<
            Leaf("NAME", "N", ""),
            Leaf("EQUAL", "=", " "),
            Node("atom", <<
              Leaf("LBRACE", "{", " "),
              Node("dictsetmaker", <<
                Leaf("STRING", "'k1'", ""),
                Leaf("COLON", ":", ""),
                Node("atom", <<
                  Leaf("LBRACE", "{", " "),
                  Node("dictsetmaker", <<
                    Leaf("STRING", "'b'", ""),
                    Leaf("COLON", ":", ""),
                    Leaf("NUMBER", "1", " ")>>),
                  Leaf("RBRACE", "}", "")>>)>>),
              Leaf("RBRACE", "}", "")>>)>>),
          Leaf("NEWLINE", "\n", "")>>),
        Leaf("ENDMARKER", "", "")>>)]

\* 'N = []'
Src_empty_list ==
    [text |-> "N = []\n",
     tree |->
      Node("file_input", <<
        Node("simple_stmt", <<
          Node("expr_stmt", <<
            Leaf("NAME", "N", ""),
            Leaf("EQUAL", "=", " "),
            Node("atom", <<
              Leaf("LSQB", "[", " "),
              Leaf("RSQB", "]", "")>>)>>),
          Leaf("NEWLINE", "\n", "")>>),
        Leaf("ENDMARKER", "", "")>>)]

\* 'N = (' / '        )'
Src_empty_tuple ==
    [text |-> "N = (\n        )\n",
     tree |->
      Node("file_input", <<
        Node("simple_stmt", <<
          Node("expr_stmt", <<
            Leaf("NAME", "N", ""),
            Leaf("EQUAL", "=", " "),
            Node("atom", <<
              Leaf("LPAR", "(", " "),
              Leaf("RPAR", ")", "\n        ")>>)>>),
          Leaf("NEWLINE", "\n", "")>>),
        Leaf("ENDMARKER", "", "")>>)]

\* 'N = {}'
Src_empty_dict ==
    [text |-> "N = {}\n",
     tree |->
      Node("file_input", <<
        Node("simple_stmt", <<
          Node("expr_stmt", <<
            Leaf("NAME", "N", ""),
            Leaf("EQUAL", "=", " "),
            Node("atom", <<
              Leaf("LBRACE", "{", " "),
              Leaf("RBRACE", "}", "")>>)>>),
          Leaf("NEWLINE", "\n", "")>>),
        Leaf("ENDMARKER", "", "")>>)]

\* "N = 'a'"
Src_scalar ==
    [text |-> "N = 'a'\n",
     tree |->
      Node("file_input", <<
        Node("simple_stmt", <<
          Node("expr_stmt", <<
            Leaf("NAME", "N", ""),
            Leaf("EQUAL", "=", " "),
            Leaf("STRING", "'a'", " ")>>),
          Leaf("NEWLINE", "\n", "")>>),
        Leaf("ENDMARKER", "", "")>>)]

\* 'N = 42'
Src_number ==
    [text |-> "N = 42\n",
     tree |->
      Node("file_input", <<
        Node("simple_stmt", <<
          Node("expr_stmt", <<
            Leaf("NAME", "N", ""),
            Leaf("EQUAL", "=", " "),
            Leaf("NUMBER", "42", " ")>>),
          Leaf("NEWLINE", "\n", "")>>),
        Leaf("ENDMARKER", "", "")>>)]

\* 'N = X'
Src_name ==
    [text |-> "N = X\n",
     tree |->
      Node("file_input", <<
        Node("simple_stmt", <<
          Node("expr_stmt", <<
            Leaf("NAME", "N", ""),
            Leaf("EQUAL", "=", " "),
            Leaf("NAME", "X", " ")>>),
          Leaf("NEWLINE", "\n", "")>>),
        Leaf("ENDMARKER", "", "")>>)]

\* "N = ('a')"
Src_paren_scalar ==
    [text |-> "N = ('a')\n",
     tree |->
      Node("file_input", <<
        Node("simple_stmt", <<
          Node("expr_stmt", <<
            Leaf("NAME", "N", ""),
            Leaf("EQUAL", "=", " "),
            Node("atom", <<
              Leaf("LPAR", "(", " "),
              Leaf("STRING", "'a'", ""),
              Leaf("RPAR", ")", "")>>)>>),
          Leaf("NEWLINE", "\n", "")>>),
        Leaf("ENDMARKER", "", "")>>)]

\* "N = 'a' 'b'"
Src_adjacent ==
    [text |-> "N = 'a' 'b'\n",
     tree |->
      Node("file_input", <<
        Node("simple_stmt", <<
          Node("expr_stmt", <<
            Leaf("NAME", "N", ""),
            Leaf("EQUAL", "=", " "),
            Node("atom", <<
              Leaf("STRING", "'a'", " "),
              Leaf("STRING", "'b'", " ")>>)>>),
          Leaf("NEWLINE", "\n", "")>>),
        Leaf("ENDMARKER", "", "")>>)]

\* "N = X = ['a',]"
Src_chained ==
    [text |-> "N = X = ['a',]\n",
     tree |->
      Node("file_input", <<
        Node("simple_stmt", <<
          Node("expr_stmt", <<
            Leaf("NAME", "N", ""),
            Leaf("EQUAL", "=", " "),
            Leaf("NAME", "X", " "),
            Leaf("EQUAL", "=", " "),
            Node("atom", <<
              Leaf("LSQB", "[", " "),
              Node("listmaker", <<
                Leaf("STRING", "'a'", ""),
                Leaf("COMMA", ",", "")>>),
              Leaf("RSQB", "]", "")>>)>>),
          Leaf("NEWLINE", "\n", "")>>),
        Leaf("ENDMARKER", "", "")>>)]

\* "N = ['a',]" / "N = ['b',]"
Src_twice ==
    [text |-> "N = ['a',]\nN = ['b',]\n",
     tree |->
      Node("file_input", <<
        Node("simple_stmt", <<
          Node("expr_stmt", <<
            Leaf("NAME", "N", ""),
            Leaf("EQUAL", "=", " "),
            Node("atom", <<
              Leaf("LSQB", "[", " "),
              Node("listmaker", <<
                Leaf("STRING", "'a'", ""),
                Leaf("COMMA", ",", "")>>),
              Leaf("RSQB", "]", "")>>)>>),
          Leaf("NEWLINE", "\n", "")>>),
        Node("simple_stmt", <<
          Node("expr_stmt", <<
            Leaf("NAME", "N", ""),
            Leaf("EQUAL", "=", " "),
            Node("atom", <<
              Leaf("LSQB", "[", " "),
              Node("listmaker", <<
                Leaf("STRING", "'b'", ""),
                Leaf("COMMA", ",", "")>>),
              Leaf("RSQB", "]", "")>>)>>),
          Leaf("NEWLINE", "\n", "")>>),
        Leaf("ENDMARKER", "", "")>>)]

\* "N = ['a',]" / "X = 1; N = ['b',]"
Src_twice_semi ==
    [text |-> "N = ['a',]\nX = 1; N = ['b',]\n",
     tree |->
      Node("file_input", <<
        Node("simple_stmt", <<
          Node("expr_stmt", <<
            Leaf("NAME", "N", ""),
            Leaf("EQUAL", "=", " "),
            Node("atom", <<
              Leaf("LSQB", "[", " "),
              Node("listmaker", <<
                Leaf("STRING", "'a'", ""),
                Leaf("COMMA", ",", "")>>),
              Leaf("RSQB", "]", "")>>)>>),
          Leaf("NEWLINE", "\n", "")>>),
        Node("simple_stmt", <<
          Node("expr_stmt", <<
            Leaf("NAME", "X", ""),
            Leaf("EQUAL", "=", " "),
            Leaf("NUMBER", "1", " ")>>),
          Leaf("SEMI", ";", ""),
          Node("expr_stmt", <<
            Leaf("NAME", "N", " "),
            Leaf("EQUAL", "=", " "),
            Node("atom", <<
              Leaf("LSQB", "[", " "),
              Node("listmaker", <<
                Leaf("STRING", "'b'", ""),
                Leaf("COMMA", ",", "")>>),
              Leaf("RSQB", "]", "")>>)>>),
          Leaf("NEWLINE", "\n", "")>>),
        Leaf("ENDMARKER", "", "")>>)]

\* "N = ['a',]" / 'if X:' / "    N = ['b',]"
Src_twice_nested ==
    [text |-> "N = ['a',]\nif X:\n    N = ['b',]\n",
     tree |->
      Node("file_input", <<
        Node("simple_stmt", <<
          Node("expr_stmt", <<
            Leaf("NAME", "N", ""),
            Leaf("EQUAL", "=", " "),
            Node("atom", <<
              Leaf("LSQB", "[", " "),
              Node("listmaker", <<
                Leaf("STRING", "'a'", ""),
                Leaf("COMMA", ",", "")>>),
              Leaf("RSQB", "]", "")>>)>>),
          Leaf("NEWLINE", "\n", "")>>),
        Node("if_stmt", <<
          Leaf("NAME", "if", ""),
          Leaf("NAME", "X", " "),
          Leaf("COLON", ":", ""),
          Node("suite", <<
            Leaf("NEWLINE", "\n", ""),
            Leaf("INDENT", "    ", ""),
            Node("simple_stmt", <<
              Node("expr_stmt", <<
                Leaf("NAME", "N", ""),
                Leaf("EQUAL", "=", " "),
                Node("atom", <<
                  Leaf("LSQB", "[", " "),
                  Node("listmaker", <<
                    Leaf("STRING", "'b'", ""),
                    Leaf("COMMA", ",", "")>>),
                  Leaf("RSQB", "]", "")>>)>>),
              Leaf("NEWLINE", "\n", "")>>),
            Leaf("DEDENT", "", "")>>)>>),
        Leaf("ENDMARKER", "", "")>>)]

\* 'if X:' / "    N = ['b',]"
Src_nested_only ==
    [text |-> "if X:\n    N = ['b',]\n",
     tree |->
      Node("file_input", <<
        Node("if_stmt", <<
          Leaf("NAME", "if", ""),
          Leaf("NAME", "X", " "),
          Leaf("COLON", ":", ""),
          Node("suite", <<
            Leaf("NEWLINE", "\n", ""),
            Leaf("INDENT", "    ", ""),
            Node("simple_stmt", <<
              Node("expr_stmt", <<
                Leaf("NAME", "N", ""),
                Leaf("EQUAL", "=", " "),
                Node("atom", <<
                  Leaf("LSQB", "[", " "),
                  Node("listmaker", <<
                    Leaf("STRING", "'b'", ""),
                    Leaf("COMMA", ",", "")>>),
                  Leaf("RSQB", "]", "")>>)>>),
              Leaf("NEWLINE", "\n", "")>>),
            Leaf("DEDENT", "", "")>>)>>),
        Leaf("ENDMARKER", "", "")>>)]

\* '# nothing here' / 'X = 1'
Src_absent ==
    [text |-> "# nothing here\nX = 1\n",
     tree |->
      Node("file_input", <<
        Node("simple_stmt", <<
          Node("expr_stmt", <<
            Leaf("NAME", "X", "# nothing here\n"),
            Leaf("EQUAL", "=", " "),
            Leaf("NUMBER", "1", " ")>>),
          Leaf("NEWLINE", "\n", "")>>),
        Leaf("ENDMARKER", "", "")>>)]

-----------------------------------------------------------------------------
(* The assignment locator.                                                 *)

\* lhs_pattern.match(node): an expr_stmt whose first child is a NAME leaf
\* with one of the names, whose second child is the leaf '=', followed by
\* anything.
lhs_pattern(node, names) ==
    /\ node.kind = "Node"
    /\ node.type = "expr_stmt"
    /\ Len(node.children) >= 2
    /\ node.children[1].kind = "Leaf"
    /\ node.children[1].type = "NAME"
    /\ \E k \in 1..Len(names) : names[k] = node.children[1].value
    /\ node.children[2].kind = "Leaf"
    /\ node.children[2].type = "EQUAL"
    /\ node.children[2].value = "="

RECURSIVE FindFrom(_, _, _, _)
\* The loop over tree.children from child i on; result maps a name to the
\* position in tree.children of the statement whose first child matched.
FindFrom(tree, names, i, result) ==
    IF i > Len(tree.children) THEN result
    ELSE LET node == tree.children[i]
         IN  IF /\ node.type = "simple_stmt"
                /\ lhs_pattern(node.children[1], names)
             THEN LET nm == node.children[1].children[1].value
                  IN  FindFrom(tree, names, i + 1,
                               [x \in DOMAIN result \cup {nm} |->
                                   IF x = nm THEN i ELSE result[x]])
             ELSE FindFrom(tree, names, i + 1, result)

\* find_assignment_nodes(tree, names); WildcardPattern refuses an empty
\* list of alternatives with an AssertionError.
find_assignment_nodes(tree, names) ==
    IF names = <<>>
    THEN [err |-> "AssertionError", result |-> <<>>]
    ELSE [err |-> NoErr, result |-> FindFrom(tree, names, 1, <<>>)]

-----------------------------------------------------------------------------
(* SettingsStringUpdater.update.  An entry is [name, value]; a map is the  *)
(* sequence of its entries in the order iteritems() yields them.           *)

Keys(entries) == [k \in 1..Len(entries) |-> entries[k].name]

RECURSIVE CreateLoop(_, _, _, _)
\* for name, value in new_settings.iteritems(), from entry i on.
CreateLoop(st, new_settings, node_dict, i) ==
    IF i > Len(new_settings) \/ st.err # NoErr THEN st
    ELSE LET e == new_settings[i]
         IN  IF e.name \in DOMAIN node_dict
             THEN [st EXCEPT !.err = "SettingsError: already present",
                             !.failed = e.name]
             ELSE CreateLoop(
                    [st EXCEPT
                       !.root = append_child(@, AssignStatement(e.name,
                                                                e.value)),
                       !.changed = TRUE,
                       !.done = @ + 1],
                    new_settings, node_dict, i + 1)

RECURSIVE ExtendLoop(_, _, _, _, _)
\* for name, value in append_settings.iteritems(), from entry i on.
ExtendLoop(st, append_settings, create_if_missing, node_dict, i) ==
    IF i > Len(append_settings) \/ st.err # NoErr THEN st
    ELSE LET e == append_settings[i]
         IN  IF e.name \notin DOMAIN node_dict
             THEN IF create_if_missing
                  THEN ExtendLoop(
                         [st EXCEPT
                            !.root = append_child(@, AssignStatement(e.name,
                                                                     e.value)),
                            !.changed = TRUE,
                            !.done = @ + 1],
                         append_settings, create_if_missing, node_dict, i + 1)
                  ELSE [st EXCEPT !.err = "SettingsError: missing",
                                  !.failed = e.name]
             ELSE LET at == node_dict[e.name]
                      r == append_to_assignment_node(
                               st.root.children[at].children[1], e.value)
                      root1 == [st.root EXCEPT
                                   !.children[at].children[1] = r.node]
                  IN  IF r.err # NoErr
                      THEN [st EXCEPT !.root = root1, !.err = r.err,
                                      !.failed = e.name]
                      ELSE ExtendLoop(
                             [st EXCEPT !.root = root1,
                                        !.changed = TRUE,
                                        !.done = @ + 1],
                             append_settings, create_if_missing, node_dict,
                             i + 1)

\* update that puts the tree and the flag back when an entry raises.
update_rolled_back(root0, changed0, new_settings, append_settings, create_if_missing) ==
    LET node_names == Keys(new_settings) \o Keys(append_settings)
        found == find_assignment_nodes(root0, node_names)
        st0 == [root |-> root0, changed |-> changed0, err |-> found.err,
                failed |-> "", done |-> 0]
        st == ExtendLoop(CreateLoop(st0, new_settings, found.result, 1),
                         append_settings, create_if_missing, found.result, 1)
    IN  IF st.err # NoErr
        THEN [st EXCEPT !.root = root0, !.changed = changed0]
        ELSE st

\* update(new_settings, append_settings, create_if_missing) on a session
\* with tree root0 and flag changed0: the tree and flag it leaves, the
\* exception raised (err), the entry it was raised at (failed) and the
\* number of entries completed before (done).
update(root0, changed0, new_settings, append_settings, create_if_missing) ==
    LET node_names == Keys(new_settings) \o Keys(append_settings)
        found == find_assignment_nodes(root0, node_names)
        st0 == [root |-> root0, changed |-> changed0, err |-> found.err,
                failed |-> "", done |-> 0]
    IN  ExtendLoop(CreateLoop(st0, new_settings, found.result, 1),
                   append_settings, create_if_missing, found.result, 1)

-----------------------------------------------------------------------------
(* The session: SettingsFileUpdater over a file system of two paths.       *)

\* No file at a path.
NoFile == "<no file>"

\* save() called without a destination.
NoDest == "<None>"

OwnPath == "settings.py"

OtherPath == "other.py"

Paths == {OwnPath, OtherPath}

\* str(self.root)
result == Str(root)

Names == {"N", "M"}

NewValue == PyTuple(<<PyStr("q"), PyInt(34)>>)

StrValue == PyStr("c")

DictValue == PyDict(<<PyStr("k"), PyStr("j")>>, <<PyInt(2), PyBool(TRUE)>>)

Entry(name, value) == [name |-> name, value |-> value]

NewEntries == {Entry(n, NewValue) : n \in Names}

\* "M" is assigned in no source file, and a statement update adds is never
\* located (see find_assignment_nodes), so one value suffices for it.
AppendEntries ==
    {Entry("N", StrValue), Entry("N", DictValue), Entry("M", StrValue)}

\* The maps over a set of entries: the sequences of at most MaxEntries
\* entries with pairwise different names (a dict has no duplicate keys;
\* its iteration order is any order).
MapsOver(E) ==
    {m \in UNION {[1..k -> E] : k \in 0..MaxEntries} :
        \A a, b \in 1..Len(m) : a # b => m[a].name # m[b].name}

Sources == {
    Src_list_one, Src_list_one_comma, Src_list_two, Src_tuple_lines,
    Src_list_last_nested, Src_list_one_nested, Src_dict_one, Src_dict_two,
    Src_dict_lines, Src_dict_last_nested, Src_empty_list, Src_empty_tuple,
    Src_empty_dict, Src_scalar, Src_number, Src_name,
    Src_paren_scalar, Src_adjacent, Src_chained, Src_twice,
    Src_twice_semi, Src_twice_nested, Src_nested_only, Src_absent}

Snapshot == [root |-> root, changed |-> changed, files |-> files]

\* SettingsFileUpdater(filename): parse the file's text, flag cleared.
Opened(src) ==
    /\ root = src.tree
    /\ changed = FALSE
    /\ filename = OwnPath
    /\ source = src.text
    /\ files = [p \in Paths |-> IF p = OwnPath THEN src.text ELSE NoFile]
    /\ calls = 0
    /\ applied = 0
    /\ last = [op |-> "open", new |-> <<>>, append |-> <<>>,
               cim |-> FALSE, err |-> NoErr, failed |-> "", done |-> 0,
               dest |-> NoDest, ret |-> FALSE]
    /\ prev = [root |-> src.tree, changed |-> FALSE,
               files |-> [p \in Paths |->
                             IF p = OwnPath THEN src.text ELSE NoFile]]

\* A session opened on one of the settings files; no Version compared.
Init ==
    \E src \in Sources :
        /\ Opened(src)
        /\ left = NoVersion
        /\ right = NoVersion
        /\ compared = NotCompared

Update(new_settings, append_settings, create_if_missing) ==
    /\ calls < MaxCalls
    /\ LET r == update(root, changed, new_settings, append_settings,
                       create_if_missing)
       IN  /\ root' = r.root
           /\ changed' = r.changed
           /\ applied' = applied + r.done
           /\ last' = [op |-> "update", new |-> new_settings,
                       append |-> append_settings,
                       cim |-> create_if_missing, err |-> r.err,
                       failed |-> r.failed, done |-> r.done,
                       dest |-> NoDest, ret |-> FALSE]
    /\ prev' = Snapshot
    /\ calls' = calls + 1
    /\ UNCHANGED <<filename, files, source, left, right, compared>>

\* save that looks at the change flag alone: `if not self.changed`.
Save_unchanged_only(dest) ==
    /\ calls < MaxCalls
    /\ IF ~changed
       THEN /\ files' = files
            /\ last' = [op |-> "save", new |-> <<>>, append |-> <<>>,
                        cim |-> FALSE, err |-> NoErr, failed |-> "",
                        done |-> 0, dest |-> dest, ret |-> FALSE]
       ELSE /\ files' = [files EXCEPT
                           ![IF dest = NoDest THEN filename ELSE dest] =
                               Str(root)]
            /\ last' = [op |-> "save", new |-> <<>>, append |-> <<>>,
                        cim |-> FALSE, err |-> NoErr, failed |-> "",
                        done |-> 0, dest |-> dest, ret |-> TRUE]
    /\ prev' = [root |-> root, changed |-> changed, files |-> files]
    /\ calls' = calls + 1
    /\ UNCHANGED <<root, changed, filename, source, applied, left, right,
                   compared>>

\* SettingsFileUpdater.save(filename=dest)
Save(dest) ==
    /\ calls < MaxCalls
    /\ IF dest = NoDest /\ ~changed
       THEN /\ files' = files
            /\ last' = [op |-> "save", new |-> <<>>, append |-> <<>>,
                        cim |-> FALSE, err |-> NoErr, failed |-> "",
                        done |-> 0, dest |-> dest, ret |-> FALSE]
       ELSE /\ files' = [files EXCEPT
                           ![IF dest = NoDest THEN filename ELSE dest] =
                               Str(root)]
            /\ last' = [op |-> "save", new |-> <<>>, append |-> <<>>,
                        cim |-> FALSE, err |-> NoErr, failed |-> "",
                        done |-> 0, dest |-> dest, ret |-> TRUE]
    /\ prev' = Snapshot
    /\ calls' = calls + 1
    /\ UNCHANGED <<root, changed, filename, source, applied, left, right,
                   compared>>

UpdateCall ==
    \E new_settings \in MapsOver(NewEntries),
       append_settings \in MapsOver(AppendEntries),
       create_if_missing \in BOOLEAN :
        /\ Len(new_settings) + Len(append_settings) <= MaxEntries
        /\ Update(new_settings, append_settings, create_if_missing)

SaveCall == \E dest \in Paths \cup {NoDest} : Save(dest)

Next == UpdateCall \/ SaveCall

Spec == Init /\ [][Next]_vars

-----------------------------------------------------------------------------
(* Comparing two Version objects.                                          *)

Numbers == 0 .. MaxNumber

\* Arguments of the constructor: None or a number.
Optional == {None} \cup {Number(n) : n \in Numbers}

\* Values tried for the subrelease argument: None, the four sub-releases and
\* FINAL, which the constructor rejects.
Subreleases == {None} \cup {Number(n) : n \in PRE_ALPHA .. FINAL}

\* Every Version object the constructor builds from these arguments.
Versions ==
    { __init__(ma, mi, pa, sr, sl).self :
        <<ma, mi, pa, sr, sl>> \in
            { a \in Optional \X Optional \X Optional \X Subreleases \X Optional :
                __init__(a[1], a[2], a[3], a[4], a[5]).err = NoErr } }

\* Two Version objects built, none of the operators applied yet; the
\* settings session is left idle.
InitVersion ==
    /\ Opened(Src_absent)
    /\ left \in Versions
    /\ right \in Versions
    /\ compared = NotCompared

\* left < right, left > right, left <= right, left >= right, left == right
\* and left != right, evaluated once.
Compare ==
    /\ ~compared.done
    /\ compared' = [done |-> TRUE,
                    lt |-> __lt__(left, right),
                    gt |-> __gt__(left, right),
                    le |-> __le__(left, right),
                    ge |-> __ge__(left, right),
                    eq |-> __eq__(left, right),
                    ne |-> __ne__(left, right)]
    /\ UNCHANGED <<root, changed, filename, files, source, calls, applied,
                   last, prev, left, right>>

NextVersion == Compare

SpecVersion == InitVersion /\ [][NextVersion]_vars


-----------------------------------------------------------------------------
(* What a document says, read off its tokens the way a parser of the       *)
(* rendered text would: used to state the properties below.                *)

Min(a, b) == IF a < b THEN a ELSE b

\* node is an assignment statement `name = ...`.
IsAssignTo(node, name) ==
    /\ node.kind = "Node"
    /\ node.type = "expr_stmt"
    /\ Len(node.children) >= 3
    /\ node.children[1].kind = "Leaf"
    /\ node.children[1].type = "NAME"
    /\ node.children[1].value = name
    /\ node.children[2].type = "EQUAL"

\* The positions in tree.children of the top-level statements that assign
\* to name: a statement line holding `name = ...` at any place between
\* its semicolons, or an assignment statement update appended.
TopLevelAssignments(tree, name) ==
    {i \in 1..Len(tree.children) :
        LET c == tree.children[i]
        IN  \/ IsAssignTo(c, name)
            \/ /\ c.kind = "Node"
               /\ c.type = "simple_stmt"
               /\ \E j \in 1..Len(c.children) : IsAssignTo(c.children[j], name)}

\* The position of the statement line `name = value` when it is the only
\* top-level assignment to name, 0 otherwise.
SoleAssignment(tree, name) ==
    LET S == TopLevelAssignments(tree, name)
    IN  IF Cardinality(S) # 1 THEN 0
        ELSE LET i == CHOOSE i \in S : TRUE
                 c == tree.children[i]
             IN  IF c.type = "simple_stmt" /\ IsAssignTo(c.children[1], name)
                 THEN i ELSE 0

\* The assignment at position i and its right-hand side.
StmtAt(tree, i) == tree.children[i].children[1]

RhsAt(tree, i) == StmtAt(tree, i).children[3]

IsChained(stmt) == Len(stmt.children) > 3

IsSeqLiteral(atom) ==
    /\ atom.type = "atom"
    /\ \/ atom.children[1].type = "LSQB"
       \/ /\ atom.children[1].type = "LPAR"
          /\ \/ Len(atom.children) = 2
             \/ atom.children[2].type = "testlist_gexp"

IsMapLiteral(atom) ==
    /\ atom.type = "atom"
    /\ atom.children[1].type = "LBRACE"
    /\ \/ Len(atom.children) = 2
       \/ /\ atom.children[2].type = "dictsetmaker"
          /\ Len(atom.children[2].children) >= 3
          /\ atom.children[2].children[2].type = "COLON"

RECURSIVE Flat(_)
\* The items of a bracketed literal in text order: grouping nodes carry no
\* text of their own and are opened up, a nested literal stays one item.
Flat(nodes) ==
    IF nodes = <<>> THEN <<>>
    ELSE LET n == Head(nodes)
         IN  (IF n.kind = "Node" /\ n.type \in {"listmaker", "testlist_gexp",
                                                "dictsetmaker", "simple_stmt"}
              THEN Flat(n.children)
              ELSE <<n>>) \o Flat(Tail(nodes))

RECURSIVE SplitRuns(_, _, _, _)
SplitRuns(items, i, cur, acc) ==
    IF i > Len(items)
    THEN IF cur = <<>> THEN acc ELSE Append(acc, cur)
    ELSE IF items[i].type = "COMMA"
    THEN SplitRuns(items, i + 1, <<>>,
                   IF cur = <<>> THEN acc ELSE Append(acc, cur))
    ELSE SplitRuns(items, i + 1, Append(cur, items[i]), acc)

\* The elements of a bracketed literal: the runs of items between its
\* commas, inside the brackets.
Elems(atom) ==
    SplitRuns(Flat(SubSeq(atom.children, 2, Len(atom.children) - 1)),
              1, <<>>, <<>>)

RECURSIVE RunText(_)
RunText(run) == IF run = <<>> THEN "" ELSE Str(Head(run)) \o RunText(Tail(run))

ElemTexts(atom) == [k \in 1..Len(Elems(atom)) |-> RunText(Elems(atom)[k])]

\* The last call was update(extend={name: value}) with nothing to create.
SingleExtend ==
    /\ last.op = "update"
    /\ last.new = <<>>
    /\ Len(last.append) = 1

\* The last call was update(create={name: value}) with nothing to extend.
SingleCreate ==
    /\ last.op = "update"
    /\ Len(last.new) = 1
    /\ last.append = <<>>

\* The parsed trees render the texts they were parsed from.
SourcesRoundTrip == \A src \in Sources : Str(src.tree) = src.text

-----------------------------------------------------------------------------
(* Properties.                                                             *)

\* C1: update(extend={N: c}) on a list or tuple setting that has one or
\* more elements makes c the last element; every element that was there
\* keeps its position and its text, and what the append added comes after
\* them.
C1_AppendMakesLastElement ==
    SingleExtend =>
        LET e == last.append[1]
            at == SoleAssignment(prev.root, e.name)
        IN  (/\ at # 0
             /\ ~IsChained(StmtAt(prev.root, at))
             /\ IsSeqLiteral(RhsAt(prev.root, at))
             /\ Len(Elems(RhsAt(prev.root, at))) >= 1)
            => LET old == ElemTexts(RhsAt(prev.root, at))
                   now == Elems(RhsAt(root, at))
               IN  /\ last.err = NoErr
                   /\ Len(now) = Len(old) + 1
                   /\ \A k \in 1..Len(old) : RunText(now[k]) = old[k]
                   /\ Len(now[Len(now)]) = 1
                   /\ now[Len(now)][1].value = repr(e.value)

\* C2: while the change flag is false, current_text() is the source text
\* the session was opened with.
C2_UnchangedFlagKeepsSourceText ==
    ~changed => result = source

\* C3: save() without a destination and with no update entry applied since
\* the session was opened returns False and writes nothing; every other
\* save() writes exactly current_text() to the destination, or to the
\* original file when none is given, and returns True.
C3_SaveContract ==
    last.op = "save" =>
        IF last.dest = NoDest /\ applied = 0
        THEN /\ last.ret = FALSE
             /\ files = prev.files
        ELSE /\ last.ret = TRUE
             /\ files = [prev.files EXCEPT
                           ![IF last.dest = NoDest THEN filename
                             ELSE last.dest] = result]

\* C3 happens: a save() without destination, after an update call that
\* applied an entry, has rewritten the original file with a text that is
\* not the one it had.
C3_Witness ==
    /\ last.op = "save"
    /\ last.dest = NoDest
    /\ last.ret = TRUE
    /\ applied > 0
    /\ files[OwnPath] = result
    /\ files[OwnPath] # source

\* C4: update(create={N: V}) fails with the duplicate-setting error whenever
\* the document already holds a top-level assignment to N, from the source
\* or from an earlier update call; the document keeps its text (the
\* statement for N is unchanged and no second one is added).
C4_DuplicateCreateRejected ==
    SingleCreate =>
        (TopLevelAssignments(prev.root, last.new[1].name) # {}
         => /\ last.err = "SettingsError: already present"
            /\ TopLevelAssignments(root, last.new[1].name)
                 = TopLevelAssignments(prev.root, last.new[1].name)
            /\ result = Str(prev.root))

\* C5: update(extend={N: V}) fails with the missing-setting error exactly
\* when create_if_missing is false and the document has no top-level
\* assignment to N (one created by an earlier update call counts as
\* present); with N absent and create_if_missing true it succeeds and
\* appends the statement a create would; with N present no statement is
\* added.
C5_ExtendMissingExactly ==
    SingleExtend =>
        LET e == last.append[1]
            present == TopLevelAssignments(prev.root, e.name) # {}
        IN  /\ (last.err = "SettingsError: missing")
                 <=> (~last.cim /\ ~present)
            /\ (~present /\ last.cim)
                 => /\ last.err = NoErr
                    /\ root = append_child(prev.root,
                                           AssignStatement(e.name, e.value))
            /\ present
                 => Len(root.children) = Len(prev.root.children)

\* C6: after a successful update(create={N: V}) with N absent, the text is
\* the text before the call followed by the one statement `N = <literal of
\* V>` and a newline; that statement is the last top-level child of the
\* document and the change flag is true.
C6_CreateAppendsOneStatement ==
    (/\ SingleCreate
     /\ last.err = NoErr
     /\ TopLevelAssignments(prev.root, last.new[1].name) = {})
    => LET e == last.new[1]
           n == Len(root.children)
       IN  /\ result = Str(prev.root) \o e.name \o " = " \o repr(e.value)
                         \o "\n"
           /\ e.value = NewValue => Str(root.children[n])
                                      = e.name \o " = ('q', 34)\n"
           /\ n = Len(prev.root.children) + 1
           /\ SubSeq(root.children, 1, n - 1) = prev.root.children
           /\ IsAssignTo(root.children[n], e.name)
           /\ TopLevelAssignments(root, e.name) = {n}
           /\ changed

\* C6 happens: a create of an absent name has succeeded on a source file
\* that ends in a comment-free statement, and the text has grown.
C6_Witness ==
    /\ SingleCreate
    /\ last.err = NoErr
    /\ TopLevelAssignments(prev.root, last.new[1].name) = {}
    /\ result = source \o "N = ('q', 34)\n"

\* C7: update(extend={N: M}) with a mapping M on a mapping setting that has
\* one or more pairs appends, for each pair of M, key ':' value ',' after
\* all the pairs that were there, which keep their order and their text.
C7_MappingAppendMerges ==
    (SingleExtend /\ last.append[1].value.t = "dict") =>
        LET e == last.append[1]
            at == SoleAssignment(prev.root, e.name)
        IN  (/\ at # 0
             /\ ~IsChained(StmtAt(prev.root, at))
             /\ IsMapLiteral(RhsAt(prev.root, at))
             /\ Len(Elems(RhsAt(prev.root, at))) >= 1)
            => LET old == ElemTexts(RhsAt(prev.root, at))
                   now == Elems(RhsAt(root, at))
                   m == Len(e.value.keys)
               IN  /\ last.err = NoErr
                   /\ Len(now) = Len(old) + m
                   /\ \A k \in 1..Len(old) : RunText(now[k]) = old[k]
                   /\ \A k \in 1..m :
                        LET run == now[Len(old) + k]
                        IN  /\ Len(run) = 3
                            /\ run[1].value = repr(e.value.keys[k])
                            /\ run[2].type = "COLON"
                            /\ run[3].value = repr(e.value.items[k])
                   /\ Flat(RhsAt(root, at).children)
                        [Len(Flat(RhsAt(root, at).children)) - 1].type
                        = "COMMA"

\* C8: when an update call fails at some entry, the entries of the call
\* applied before it stay applied: the tree is the one a call with only
\* those entries leaves (but for the statement of the failing entry), so
\* they are visible in current_text(); the change flag is true, so save()
\* without destination writes; nothing is rolled back.
C8_PartialApplicationKept ==
    (last.op = "update" /\ last.err # NoErr /\ last.done > 0) =>
        LET nc == Min(last.done, Len(last.new))
            kept == update(prev.root, prev.changed,
                           SubSeq(last.new, 1, nc),
                           SubSeq(last.append, 1, last.done - nc),
                           last.cim)
            found == find_assignment_nodes(prev.root, <<last.failed>>).result
            fpos == IF last.failed \in DOMAIN found THEN found[last.failed]
                    ELSE 0
        IN  /\ changed
            /\ applied >= last.done
            /\ kept.err = NoErr
            /\ Len(root.children) = Len(kept.root.children)
            /\ \A i \in 1..Len(root.children) :
                    i # fpos => root.children[i] = kept.root.children[i]
            /\ \A i \in 1..nc :
                    root.children[Len(prev.root.children) + i]
                      = AssignStatement(last.new[i].name, last.new[i].value)
            /\ nc > 0 => Len(result) > Len(Str(prev.root))
            /\ calls < MaxCalls
                 => ENABLED (/\ Save(NoDest)
                             /\ last'.ret = TRUE
                             /\ files'[filename] = result)

\* C8 happens: an update call has failed at its second entry after
\* creating the statement of its first.
C8_Witness ==
    /\ last.op = "update"
    /\ last.err = "SettingsError: already present"
    /\ last.done = 1
    /\ Len(last.new) = 2
    /\ result = source \o "M = ('q', 34)\n"

\* C9: the locator looks at top-level statements only and maps a name that
\* is assigned more than once at top level to the last of the assignments:
\* an extend for the name changes that one and leaves every other
\* statement, the earlier assignments to the name among them, unchanged.
C9_LastAssignmentWins ==
    SingleExtend =>
        LET e == last.append[1]
            S == TopLevelAssignments(prev.root, e.name)
            found == find_assignment_nodes(prev.root, <<e.name>>).result
        IN  Cardinality(S) >= 2
            => LET top == CHOOSE i \in S : \A j \in S : j <= i
               IN  /\ e.name \in DOMAIN found
                   /\ found[e.name] = top
                   /\ Len(root.children) = Len(prev.root.children)
                   /\ \A i \in 1..Len(root.children) :
                        i # top => root.children[i] = prev.root.children[i]

\* The right-hand side of the statement at position i is a list, tuple or
\* mapping literal.
IsContainerAt(tree, i) ==
    /\ ~IsChained(StmtAt(tree, i))
    /\ \/ IsSeqLiteral(RhsAt(tree, i))
       \/ IsMapLiteral(RhsAt(tree, i))

\* C10: update(extend={N: V}) on a located setting whose right-hand side is
\* not a list, tuple or mapping literal fails with the not-a-container
\* error and appends nothing.
C10_NonContainerRejected ==
    SingleExtend =>
        LET e == last.append[1]
            at == SoleAssignment(prev.root, e.name)
        IN  (at # 0 /\ ~IsContainerAt(prev.root, at))
            => /\ last.err \in {"SettingsError: not a container",
                                "SettingsError: unknown container type"}
               /\ result = Str(prev.root)

\* The right-hand side at position i reads as an empty `[]`, `()` or `{}`:
\* an opening and a closing bracket with no token between them.
IsEmptyContainerAt(tree, i) ==
    /\ ~IsChained(StmtAt(tree, i))
    /\ RhsAt(tree, i).type = "atom"
    /\ RhsAt(tree, i).children[1].type \in {"LSQB", "LPAR", "LBRACE"}
    /\ RhsAt(tree, i).children[Len(RhsAt(tree, i).children)].type
         \in {"RSQB", "RPAR", "RBRACE"}
    /\ Flat(SubSeq(RhsAt(tree, i).children, 2,
                   Len(RhsAt(tree, i).children) - 1)) = <<>>

\* C11: update(extend={N: V}) on an empty `[]`, `()` or `{}` puts the new
\* element (list, tuple) or the pairs of V (mapping, V a mapping) between
\* the original brackets, each element or key prefixed with a newline and
\* four spaces and followed by a comma; the container then holds exactly
\* what was supplied.
C11_EmptyContainerFilled ==
    SingleExtend =>
        LET e == last.append[1]
            at == SoleAssignment(prev.root, e.name)
        IN  (/\ at # 0
             /\ IsEmptyContainerAt(prev.root, at)
             /\ (RhsAt(prev.root, at).children[1].type = "LBRACE"
                   => e.value.t = "dict"))
            => LET old == RhsAt(prev.root, at)
                   new == RhsAt(root, at)
                   isMap == old.children[1].type = "LBRACE"
                   inner == Flat(SubSeq(new.children, 2,
                                        Len(new.children) - 1))
                   now == Elems(new)
                   m == Len(e.value.keys)
               IN  /\ last.err = NoErr
                   /\ new.children[1] = old.children[1]
                   /\ new.children[Len(new.children)]
                        = old.children[Len(old.children)]
                   /\ Str(new) = Str(old.children[1])
                         \o (IF ~isMap
                             THEN "\n    " \o repr(e.value) \o ","
                             ELSE IF e.value = DictValue
                             THEN "\n    'k': 2,\n    'j': True,"
                             ELSE "")
                         \o Str(old.children[Len(old.children)])
                   /\ (~isMap /\ e.value = StrValue)
                        => RunText(inner) = "\n    'c',"
                   /\ (~isMap /\ e.value = DictValue)
                        => RunText(inner) = "\n    {'k': 2, 'j': True},"
                   /\ ~isMap => /\ Len(now) = 1
                                /\ Len(now[1]) = 1
                                /\ now[1][1].value = repr(e.value)
                                /\ now[1][1].prefix = "\n    "
                                /\ Len(inner) = 2
                   /\ isMap => /\ Len(now) = m
                               /\ Len(inner) = 4 * m
                               /\ \A k \in 1..m :
                                    /\ Len(now[k]) = 3
                                    /\ now[k][1].prefix = "\n    "
                                    /\ now[k][1].value = repr(e.value.keys[k])
                                    /\ now[k][2].type = "COLON"
                                    /\ now[k][3].value
                                         = repr(e.value.items[k])
                   /\ \A k \in 1..Len(inner) :
                        (k % (IF isMap THEN 4 ELSE 2) = 0)
                          <=> inner[k].type = "COMMA"
                   /\ Len(root.children) = Len(prev.root.children)
                   /\ \A i \in 1..Len(root.children) :
                        i # at => root.children[i] = prev.root.children[i]
-----------------------------------------------------------------------------
(* The ordering of Version objects.                                        *)

\* x is ordered below y, a missing component below any number.
ComponentBelow(x, y) ==
    \/ x = None /\ y # None
    \/ x # None /\ y # None /\ x[1] < y[1]

\* v comes before w in the order of the tuples (major, minor, patch,
\* subrelease, subrellevel): they agree up to some component, at which v is
\* below w.
TupleBelow(v, w) ==
    LET s == <<v.major, v.minor, v.patch, v.subrelease, v.subrellevel>>
        t == <<w.major, w.minor, w.patch, w.subrelease, w.subrellevel>>
    IN  \E i \in 1 .. 5 :
            /\ \A j \in 1 .. (i - 1) : s[j] = t[j]
            /\ ComponentBelow(s[i], t[i])

HasSubrelease(v) == v.subrelease # None

\* C12: for two Version objects a and b exactly one of a < b, a == b and
\* b < a holds, and a == b holds just when their attributes agree; < is
\* transitive; a version with a subrelease is less than every version
\* without one, whatever their major, minor and patch numbers; two versions
\* of the same kind are ordered by the tuple (major, minor, patch,
\* subrelease, subrellevel), a missing component below any number.  The
\* derived operators agree with <: a > b is b < a, a <= b is not b < a,
\* a >= b is not a < b, a != b is not a == b.
C12_VersionOrder ==
    compared.done =>
        LET a == left
            b == right
            lt == compared.lt
            eq == compared.eq
            gt == compared.gt
        IN  /\ gt = __lt__(b, a)
            /\ (lt /\ ~eq /\ ~gt) \/ (~lt /\ eq /\ ~gt) \/ (~lt /\ ~eq /\ gt)
            /\ eq = (a = b)
            /\ compared.ne = ~eq
            /\ compared.le = (lt \/ eq)
            /\ compared.ge = (gt \/ eq)
            /\ lt => \A c \in Versions : __lt__(b, c) => __lt__(a, c)
            /\ (HasSubrelease(a) /\ ~HasSubrelease(b)) => lt
            /\ (HasSubrelease(b) /\ ~HasSubrelease(a)) => gt
            /\ (HasSubrelease(a) = HasSubrelease(b)) => lt = TupleBelow(a, b)

\* A beta of a higher major number compared with a final version of a lower
\* one, and found less.
C12_Witness ==
    /\ compared.done
    /\ HasSubrelease(left)
    /\ ~HasSubrelease(right)
    /\ left.major[1] > right.major[1]
    /\ left.subrelease = Number(BETA)
    /\ compared.lt

\* Two final versions that differ only in one having a patch number: the one
\* without it is less.
C12_WitnessMissing ==
    /\ compared.done
    /\ ~HasSubrelease(left)
    /\ ~HasSubrelease(right)
    /\ left.major = right.major
    /\ left.minor = right.minor
    /\ left.patch = None
    /\ right.patch # None
    /\ compared.lt
-----------------------------------------------------------------------------
(* Whitespace given to what an append adds.                                *)

\* The items between the brackets of the literal at position i, in text
\* order.
ItemsAt(tree, i) ==
    Flat(SubSeq(RhsAt(tree, i).children, 2, Len(RhsAt(tree, i).children) - 1))

\* C13: a successful update(extend={N: V}) on a list, tuple or mapping that
\* has one or more elements keeps the items that were there and adds after
\* them a comma when the last of them is not a comma, and no comma when it
\* is; the element added (list, tuple) or each key added (mapping) then
\* carries the prefix of the first token of the last element that was
\* there.
C13_PrefixOfLastElement ==
    SingleExtend =>
        LET e == last.append[1]
            at == SoleAssignment(prev.root, e.name)
        IN  (/\ at # 0
             /\ ~IsChained(StmtAt(prev.root, at))
             /\ \/ IsSeqLiteral(RhsAt(prev.root, at))
                \/ IsMapLiteral(RhsAt(prev.root, at)) /\ e.value.t = "dict"
             /\ Len(Elems(RhsAt(prev.root, at))) >= 1
             /\ last.err = NoErr)
            => LET old == ItemsAt(prev.root, at)
                   new == ItemsAt(root, at)
                   oldElems == Elems(RhsAt(prev.root, at))
                   want == Prefix(oldElems[Len(oldElems)][1])
                   hadComma == old[Len(old)].type = "COMMA"
                   first == Len(old) + (IF hadComma THEN 1 ELSE 2)
                   isMap == IsMapLiteral(RhsAt(prev.root, at))
                   count == IF isMap THEN Len(e.value.keys) ELSE 1
                   step == IF isMap THEN 4 ELSE 2
               IN  /\ Len(new) = first - 1 + step * count
                   /\ SubSeq(new, 1, Len(old)) = old
                   /\ ~hadComma => new[Len(old) + 1].type = "COMMA"
                   /\ \A k \in 0 .. (count - 1) :
                        /\ new[first + step * k].type # "COMMA"
                        /\ Prefix(new[first + step * k]) = want
-----------------------------------------------------------------------------
(* One assignment per setting.                                             *)

\* The tree of the file the session was opened on.
SourceTree == (CHOOSE src \in Sources : src.text = source).tree

\* No name has more than one top-level assignment in the tree.
NoDuplicates(tree) ==
    \A name \in Names : Cardinality(TopLevelAssignments(tree, name)) <= 1

\* C14: in a session opened on a file in which no name has more than one
\* top-level assignment, no name has more than one top-level assignment
\* after any sequence of update calls, failed ones and calls that name the
\* same setting to create and to extend with create_if_missing included.
C14_OneAssignmentPerName ==
    NoDuplicates(SourceTree) => NoDuplicates(root)

====
